---- MODULE Spec2Model ----
(***************************************************************************)
(* RemoteModule construction protocol of                                   *)
(* torch/distributed/nn/api/remote_module.py.                              *)
(*                                                                         *)
(* Every invocation of RemoteModule(...) is a call c \in Calls running on  *)
(* its own thread of its caller node.  The caller's position is pc[c]; the *)
(* labels are the source lines at which the thread stands.  The work done  *)
(* on the target node by the RPC runtime (the handler of the asynchronous  *)
(* template request, the handler of the synchronous creation request, the  *)
(* owner side of rpc.remote) are separate actions that interleave freely   *)
(* with every caller.                                                      *)
(***************************************************************************)
EXTENDS Naturals, Sequences, FiniteSets, Bags, TLC

(* Bound: number of RemoteModule invocations (each on its own thread). *)
NumCalls == 2

Calls == 1 .. NumCalls

(* NodeIdentity strings of the mesh (worker names of the RPC agents). *)
Nodes == {"w", "w_1"}

(* Python's None. *)
None == "None"

(* Interface classes: IfaceS is decorated with @torch.jit.interface,     *)
(* IfaceN is not.                                                          *)

(* Module creators: mkS is annotated "-> IfaceS", mkN "-> IfaceN", mkBad   *)
(* carries no usable return annotation.                                    *)
(* The invocations considered: (node of the caller, to, module_creator,  *)
(* global_unique_name, module_interface_cls).  From node w to node w_1:    *)
(* name allocated and a scriptable interface inferred; name allocated and  *)
(* inference failing; name and a non-scriptable interface passed           *)
(* explicitly.  From node w_1 to itself: name allocated and a              *)
(* non-scriptable interface inferred.                                      *)
CallArgs ==
  { [from |-> "w", to |-> "w_1", creator |-> "mkS", name |-> None,
     iface |-> None],
    [from |-> "w", to |-> "w_1", creator |-> "mkBad", name |-> None,
     iface |-> None],
    [from |-> "w", to |-> "w_1", creator |-> "mkBad", name |-> "m",
     iface |-> "IfaceN"],
    [from |-> "w_1", to |-> "w_1", creator |-> "mkN", name |-> None,
     iface |-> None] }

NoThread == 0

VARIABLES
  nextLocalId,   \* node -> _NEXT_LOCAL_ID of that process
  lock,          \* node -> holder of _NEXT_LOCAL_ID_LOCK (NoThread: free)
  registry,      \* node -> names of the generated modules registered there
  allocated,     \* node -> bag of the names _gen_global_unique_name
                 \*         has returned there
  pc,            \* call -> position of the calling thread
  caller,        \* call -> node the call runs on
  agent,         \* call -> rpc._is_current_rpc_agent_set() at the call
  to,            \* call -> argument `to`
  creator,       \* call -> argument `module_creator`
  given,         \* call -> argument `global_unique_name` as passed
  name,          \* call -> local `global_unique_name`
  iface,         \* call -> local `module_interface_cls`
  scriptable,    \* call -> local `is_scriptable`
  localId,       \* call -> local `local_unique_id` of _gen_global_unique_name
  fut,           \* call -> state of the future of the template request
  futArgs,       \* call -> arguments carried by the template request
  crt,           \* call -> state of the creation request on the target
  rref,          \* call -> local `module_rref` is bound
  cls,           \* call -> local `remote_module_cls` is bound
  proxy,         \* call -> local `remote_module` is bound
  outcome,       \* call -> "none", "proxy" (returned) or the error raised
  sent,          \* call -> requests the caller has issued, in order
  rlog,          \* call -> what the target has done for the call, in order
  fwd            \* call -> result of the first call forwarded by the proxy

vars == <<nextLocalId, lock, registry, allocated, pc, caller, agent, to,
          creator, given, name, iface, scriptable, localId, fut, futArgs, crt,
          rref, cls, proxy, outcome, sent, rlog, fwd>>

allocVars == <<nextLocalId, lock, allocated, localId>>
argVars == <<caller, agent, to, creator, given>>
remoteVars == <<fut, futArgs, crt, rlog>>
localVars == <<rref, cls, proxy, fwd>>

----
(* Pure helpers. *)

(* The name without the worker's name in it. *)
GlobalUniqueNameNoWorker(worker, id) == ToString(id)

(* f"{self_worker_name}_{local_unique_id}" (line 20). *)
GlobalUniqueName(worker, id) == worker \o "_" \o ToString(id)

(* f"_RemoteModule_{global_unique_name}" (line 25). *)
GeneratedModuleName(n) == "_RemoteModule_" \o n

(* instantiator.get_return_type_from_callable(module_creator): the class   *)
(* the creator's return annotation names, or an error.                     *)
ReturnType(mc) ==
  CASE mc = "mkS" -> "IfaceS"
    [] mc = "mkN" -> "IfaceN"
    [] OTHER -> None

(* getattr(module_interface_cls, "__torch_script_interface__", False). *)
IsScriptable(i) == i = "IfaceS"

(* No mutual exclusion. *)
LockAlwaysFree(n) == TRUE

(* _NEXT_LOCAL_ID_LOCK can be taken (line 16). *)
LockFree(n) == lock[n] = NoThread

Raise(c, err) ==
  /\ pc' = [pc EXCEPT ![c] = "raised"]
  /\ outcome' = [outcome EXCEPT ![c] = err]

Goto(c, label) == pc' = [pc EXCEPT ![c] = label]

----
Init ==
  /\ nextLocalId = [n \in Nodes |-> 0]
  /\ lock = [n \in Nodes |-> NoThread]
  /\ registry = [n \in Nodes |-> {}]
  /\ allocated = [n \in Nodes |-> EmptyBag]
  /\ pc = [c \in Calls |-> "idle"]
  /\ caller = [c \in Calls |-> None]
  /\ agent = [c \in Calls |-> TRUE]
  /\ to = [c \in Calls |-> None]
  /\ creator = [c \in Calls |-> None]
  /\ given = [c \in Calls |-> None]
  /\ name = [c \in Calls |-> None]
  /\ iface = [c \in Calls |-> None]
  /\ scriptable = [c \in Calls |-> FALSE]
  /\ localId = [c \in Calls |-> 0]
  /\ fut = [c \in Calls |-> "none"]
  /\ futArgs = [c \in Calls |-> <<>>]
  /\ crt = [c \in Calls |-> "none"]
  /\ rref = [c \in Calls |-> FALSE]
  /\ cls = [c \in Calls |-> FALSE]
  /\ proxy = [c \in Calls |-> FALSE]
  /\ outcome = [c \in Calls |-> "none"]
  /\ sent = [c \in Calls |-> <<>>]
  /\ rlog = [c \in Calls |-> <<>>]
  /\ fwd = [c \in Calls |-> "none"]

----
(* The calling thread: RemoteModule (lines 43-109) and                     *)
(* _gen_global_unique_name (lines 14-20).                                  *)

(* Enter without the assert of line 64. *)
EnterNoAssert(c) ==
  /\ pc[c] = "idle"
  /\ \E a \in CallArgs, agentSet \in BOOLEAN :
       /\ caller' = [caller EXCEPT ![c] = a.from]
       /\ agent' = [agent EXCEPT ![c] = agentSet]
       /\ to' = [to EXCEPT ![c] = a.to]
       /\ creator' = [creator EXCEPT ![c] = a.creator]
       /\ given' = [given EXCEPT ![c] = a.name]
       /\ iface' = [iface EXCEPT ![c] = a.iface]
       /\ name' = [name EXCEPT ![c] = a.name]
       /\ Goto(c, IF a.name # None THEN "L76" ELSE "L16")
  /\ UNCHANGED <<allocVars, registry, scriptable, remoteVars, localVars,
                 outcome, sent>>

(* Enter that calls the allocator whether or not a name was passed. *)
EnterIgnoreName(c) ==
  /\ pc[c] = "idle"
  /\ \E a \in CallArgs, agentSet \in BOOLEAN :
       /\ caller' = [caller EXCEPT ![c] = a.from]
       /\ agent' = [agent EXCEPT ![c] = agentSet]
       /\ to' = [to EXCEPT ![c] = a.to]
       /\ creator' = [creator EXCEPT ![c] = a.creator]
       /\ given' = [given EXCEPT ![c] = a.name]
       /\ iface' = [iface EXCEPT ![c] = a.iface]
       /\ name' = [name EXCEPT ![c] = a.name]
       /\ IF ~agentSet
            THEN Raise(c, "AssertionError")
            ELSE /\ Goto(c, "L16")
                 /\ UNCHANGED outcome
  /\ UNCHANGED <<allocVars, registry, scriptable, remoteVars, localVars, sent>>

(* Lines 64-73: the assert on rpc._is_current_rpc_agent_set(), the default *)
(* arguments, and the choice between the caller's name and the allocator.  *)
Enter(c) ==
  /\ pc[c] = "idle"
  /\ \E a \in CallArgs, agentSet \in BOOLEAN :
       /\ caller' = [caller EXCEPT ![c] = a.from]
       /\ agent' = [agent EXCEPT ![c] = agentSet]
       /\ to' = [to EXCEPT ![c] = a.to]
       /\ creator' = [creator EXCEPT ![c] = a.creator]
       /\ given' = [given EXCEPT ![c] = a.name]
       /\ iface' = [iface EXCEPT ![c] = a.iface]
       /\ name' = [name EXCEPT ![c] = a.name]
       /\ IF ~agentSet
            THEN Raise(c, "AssertionError")
            ELSE /\ Goto(c, IF a.name # None THEN "L76" ELSE "L16")
                 /\ UNCHANGED outcome
  /\ UNCHANGED <<allocVars, registry, scriptable, remoteVars, localVars, sent>>

(* Line 16: with _NEXT_LOCAL_ID_LOCK (acquire). *)
Acquire(c) ==
  /\ pc[c] = "L16"
  /\ LockFree(caller[c])
  /\ lock' = [lock EXCEPT ![caller[c]] = c]
  /\ Goto(c, "L17")
  /\ UNCHANGED <<nextLocalId, allocated, localId, registry, argVars, name,
                 iface, scriptable, remoteVars, localVars, outcome, sent>>

(* Line 17: local_unique_id = _NEXT_LOCAL_ID. *)
ReadId(c) ==
  /\ pc[c] = "L17"
  /\ localId' = [localId EXCEPT ![c] = nextLocalId[caller[c]]]
  /\ Goto(c, "L18")
  /\ UNCHANGED <<nextLocalId, lock, allocated, registry, argVars, name,
                 iface, scriptable, remoteVars, localVars, outcome, sent>>

(* Increment that adds two. *)
IncrementBy2(c) ==
  /\ pc[c] = "L18"
  /\ nextLocalId' = [nextLocalId EXCEPT ![caller[c]] = @ + 2]
  /\ Goto(c, "L19")
  /\ UNCHANGED <<lock, allocated, localId, registry, argVars, name,
                 iface, scriptable, remoteVars, localVars, outcome, sent>>

(* Line 18: _NEXT_LOCAL_ID += 1. *)
Increment(c) ==
  /\ pc[c] = "L18"
  /\ nextLocalId' = [nextLocalId EXCEPT ![caller[c]] = @ + 1]
  /\ Goto(c, "L19")
  /\ UNCHANGED <<lock, allocated, localId, registry, argVars, name,
                 iface, scriptable, remoteVars, localVars, outcome, sent>>

(* Leaving the with block releases the lock; lines 19-20 read the worker   *)
(* name of this process and return the name, which line 69 binds.          *)
ReleaseAndName(c) ==
  /\ pc[c] = "L19"
  /\ lock' = [lock EXCEPT ![caller[c]] = NoThread]
  /\ LET n == GlobalUniqueName(caller[c], localId[c])
     IN /\ name' = [name EXCEPT ![c] = n]
        /\ allocated' = [allocated EXCEPT ![caller[c]] = @ (+) SetToBag({n})]
  /\ Goto(c, "L76")
  /\ UNCHANGED <<nextLocalId, localId, registry, argVars, iface, scriptable,
                 remoteVars, localVars, outcome, sent>>

(* ResolveIface that goes on with no interface when inference fails. *)
ResolveIfaceLenient(c) ==
  /\ pc[c] = "L76"
  /\ LET i == IF iface[c] # None THEN iface[c] ELSE ReturnType(creator[c])
     IN /\ iface' = [iface EXCEPT ![c] = i]
        /\ scriptable' = [scriptable EXCEPT ![c] = IsScriptable(i)]
        /\ Goto(c, "L84")
        /\ UNCHANGED outcome
  /\ UNCHANGED <<allocVars, registry, argVars, name, remoteVars, localVars,
                 sent>>

(* Lines 76-81: infer module_interface_cls when it was not passed, and     *)
(* read is_scriptable off it.                                              *)
ResolveIface(c) ==
  /\ pc[c] = "L76"
  /\ LET i == IF iface[c] # None THEN iface[c] ELSE ReturnType(creator[c])
     IN IF i = None
          THEN /\ Raise(c, "InterfaceInferenceError")
               /\ UNCHANGED <<iface, scriptable>>
          ELSE /\ iface' = [iface EXCEPT ![c] = i]
               /\ scriptable' = [scriptable EXCEPT ![c] = IsScriptable(i)]
               /\ Goto(c, "L84")
               /\ UNCHANGED outcome
  /\ UNCHANGED <<allocVars, registry, argVars, name, remoteVars, localVars,
                 sent>>

(* Lines 84-88: fut = rpc.rpc_async(to, _instantiate_template, (...)). *)
IssueTemplate(c) ==
  /\ pc[c] = "L84"
  /\ fut' = [fut EXCEPT ![c] = "pending"]
  /\ futArgs' = [futArgs EXCEPT ![c] = <<name[c], iface[c], scriptable[c]>>]
  /\ sent' = [sent EXCEPT ![c] = Append(@, "template")]
  /\ Goto(c, "L91")
  /\ UNCHANGED <<allocVars, registry, argVars, name, iface, scriptable, crt,
                 rlog, localVars, outcome>>

(* LocalTemplate with the instantiator's error swallowed. *)
LocalTemplateContinue(c) ==
  /\ pc[c] = "L91"
  /\ \/ /\ registry' = [registry EXCEPT ![caller[c]] =
                          @ \cup {GeneratedModuleName(name[c])}]
        /\ cls' = [cls EXCEPT ![c] = TRUE]
     \/ UNCHANGED <<registry, cls>>
  /\ Goto(c, "L96")
  /\ UNCHANGED <<allocVars, argVars, name, iface, scriptable, remoteVars,
                 rref, proxy, fwd, outcome, sent>>

(* LocalTemplate that first waits for the future of the template request. *)
LocalTemplateAfterRemote(c) ==
  /\ pc[c] = "L91"
  /\ fut[c] # "pending"
  /\ \/ /\ registry' = [registry EXCEPT ![caller[c]] =
                          @ \cup {GeneratedModuleName(name[c])}]
        /\ cls' = [cls EXCEPT ![c] = TRUE]
        /\ Goto(c, "L96")
        /\ UNCHANGED outcome
     \/ /\ Raise(c, "TemplateGenerationError")
        /\ UNCHANGED <<registry, cls>>
  /\ UNCHANGED <<allocVars, argVars, name, iface, scriptable, remoteVars,
                 rref, proxy, fwd, sent>>

(* Lines 91-93: remote_module_cls = _instantiate_template(...) on the      *)
(* caller; the instantiator registers the generated module or raises.      *)
LocalTemplate(c) ==
  /\ pc[c] = "L91"
  /\ \/ /\ registry' = [registry EXCEPT ![caller[c]] =
                          @ \cup {GeneratedModuleName(name[c])}]
        /\ cls' = [cls EXCEPT ![c] = TRUE]
        /\ Goto(c, "L96")
        /\ UNCHANGED outcome
     \/ /\ Raise(c, "TemplateGenerationError")
        /\ UNCHANGED <<registry, cls>>
  /\ UNCHANGED <<allocVars, argVars, name, iface, scriptable, remoteVars,
                 rref, proxy, fwd, sent>>

(* Create with the test of line 96 inverted. *)
CreateInverted(c) ==
  /\ pc[c] = "L96"
  /\ crt' = [crt EXCEPT ![c] = "pending"]
  /\ IF ~scriptable[c]
       THEN /\ sent' = [sent EXCEPT ![c] = Append(@, "sync")]
            /\ Goto(c, "L97")
            /\ UNCHANGED <<rref, proxy>>
       ELSE /\ sent' = [sent EXCEPT ![c] = Append(@, "deferred")]
            /\ rref' = [rref EXCEPT ![c] = TRUE]
            /\ proxy' = [proxy EXCEPT ![c] = TRUE]
            /\ Goto(c, "L108")
  /\ UNCHANGED <<allocVars, registry, argVars, name, iface, scriptable, fut,
                 futArgs, rlog, cls, fwd, outcome>>

(* Create that may also run before the local template instantiation. *)
CreateEarly(c) ==
  /\ pc[c] \in {"L91", "L96"}
  /\ crt' = [crt EXCEPT ![c] = "pending"]
  /\ IF scriptable[c]
       THEN /\ sent' = [sent EXCEPT ![c] = Append(@, "sync")]
            /\ Goto(c, "L97")
            /\ UNCHANGED <<rref, proxy>>
       ELSE /\ sent' = [sent EXCEPT ![c] = Append(@, "deferred")]
            /\ rref' = [rref EXCEPT ![c] = TRUE]
            /\ proxy' = [proxy EXCEPT ![c] = TRUE]
            /\ Goto(c, "L108")
  /\ UNCHANGED <<allocVars, registry, argVars, name, iface, scriptable, fut,
                 futArgs, rlog, cls, fwd, outcome>>

(* Lines 96-106.  Scriptable: rpc.rpc_sync(to,                           *)
(* _script_module_creator_wrapper, ...) sends the request and blocks.      *)
(* Otherwise rpc.remote(to, module_creator, args, kwargs) sends the        *)
(* request and returns the RRef at once, and line 106 builds               *)
(* remote_module from it.                                                  *)
Create(c) ==
  /\ pc[c] = "L96"
  /\ crt' = [crt EXCEPT ![c] = "pending"]
  /\ IF scriptable[c]
       THEN /\ sent' = [sent EXCEPT ![c] = Append(@, "sync")]
            /\ Goto(c, "L97")
            /\ UNCHANGED <<rref, proxy>>
       ELSE /\ sent' = [sent EXCEPT ![c] = Append(@, "deferred")]
            /\ rref' = [rref EXCEPT ![c] = TRUE]
            /\ proxy' = [proxy EXCEPT ![c] = TRUE]
            /\ Goto(c, "L108")
  /\ UNCHANGED <<allocVars, registry, argVars, name, iface, scriptable, fut,
                 futArgs, rlog, cls, fwd, outcome>>

(* SyncReturn that does not wait for the handler (rpc_async in place of   *)
(* rpc_sync).                                                              *)
SyncReturnNoBlock(c) ==
  /\ pc[c] = "L97"
  /\ rref' = [rref EXCEPT ![c] = TRUE]
  /\ proxy' = [proxy EXCEPT ![c] = TRUE]
  /\ Goto(c, "L108")
  /\ UNCHANGED <<allocVars, registry, argVars, name, iface, scriptable,
                 remoteVars, cls, fwd, outcome, sent>>

(* SyncReturn that sends the request again when the handler failed. *)
SyncReturnRetry(c) ==
  /\ pc[c] = "L97"
  /\ \/ /\ crt[c] = "ok"
        /\ rref' = [rref EXCEPT ![c] = TRUE]
        /\ proxy' = [proxy EXCEPT ![c] = TRUE]
        /\ Goto(c, "L108")
        /\ UNCHANGED <<crt, sent>>
     \/ /\ crt[c] = "err"
        /\ Len(sent[c]) < 3
        /\ crt' = [crt EXCEPT ![c] = "pending"]
        /\ sent' = [sent EXCEPT ![c] = Append(@, "sync")]
        /\ UNCHANGED <<pc, rref, proxy>>
  /\ UNCHANGED <<allocVars, registry, argVars, name, iface, scriptable, fut,
                 futArgs, rlog, cls, fwd, outcome>>

(* SyncReturn that swallows the handler's error. *)
SyncReturnSwallow(c) ==
  /\ pc[c] = "L97"
  /\ crt[c] \in {"ok", "err"}
  /\ rref' = [rref EXCEPT ![c] = TRUE]
  /\ proxy' = [proxy EXCEPT ![c] = TRUE]
  /\ Goto(c, "L108")
  /\ UNCHANGED <<allocVars, registry, argVars, name, iface, scriptable,
                 remoteVars, cls, fwd, outcome, sent>>

(* Lines 97-106: rpc_sync returns the RRef the handler built, and line 106 *)
(* builds remote_module from it; or rpc_sync raises the handler's error.   *)
SyncReturn(c) ==
  /\ pc[c] = "L97"
  /\ \/ /\ crt[c] = "ok"
        /\ rref' = [rref EXCEPT ![c] = TRUE]
        /\ proxy' = [proxy EXCEPT ![c] = TRUE]
        /\ Goto(c, "L108")
        /\ UNCHANGED outcome
     \/ /\ crt[c] = "err"
        /\ Raise(c, "RemoteCreationError")
        /\ UNCHANGED <<rref, proxy>>
  /\ UNCHANGED <<allocVars, registry, argVars, name, iface, scriptable,
                 remoteVars, cls, fwd, sent>>

(* Wait without fut.wait(): line 109 alone. *)
WaitNoBlock(c) ==
  /\ pc[c] = "L108"
  /\ pc' = [pc EXCEPT ![c] = "returned"]
  /\ outcome' = [outcome EXCEPT ![c] = "proxy"]
  /\ UNCHANGED <<allocVars, registry, argVars, name, iface, scriptable,
                 remoteVars, localVars, sent>>

(* Wait that swallows the error of the future. *)
WaitSwallow(c) ==
  /\ pc[c] = "L108"
  /\ fut[c] \in {"ok", "err"}
  /\ pc' = [pc EXCEPT ![c] = "returned"]
  /\ outcome' = [outcome EXCEPT ![c] = "proxy"]
  /\ UNCHANGED <<allocVars, registry, argVars, name, iface, scriptable,
                 remoteVars, localVars, sent>>

(* Wait that, when the future failed, asks the target to delete the module *)
(* it created before raising.                                              *)
WaitCleanup(c) ==
  /\ pc[c] = "L108"
  /\ \/ /\ fut[c] = "ok"
        /\ pc' = [pc EXCEPT ![c] = "returned"]
        /\ outcome' = [outcome EXCEPT ![c] = "proxy"]
        /\ UNCHANGED <<crt, sent>>
     \/ /\ fut[c] = "err"
        /\ Raise(c, "TemplateGenerationError")
        /\ sent' = [sent EXCEPT ![c] = Append(@, "cleanup")]
        /\ crt' = [crt EXCEPT ![c] = "none"]
  /\ UNCHANGED <<allocVars, registry, argVars, name, iface, scriptable,
                 fut, futArgs, rlog, localVars>>

(* Wait that keeps waiting when the future has failed. *)
WaitStuck(c) ==
  /\ pc[c] = "L108"
  /\ fut[c] = "ok"
  /\ pc' = [pc EXCEPT ![c] = "returned"]
  /\ outcome' = [outcome EXCEPT ![c] = "proxy"]
  /\ UNCHANGED <<allocVars, registry, argVars, name, iface, scriptable,
                 remoteVars, localVars, sent>>

(* Wait that raises when the template future of any call has failed. *)
WaitAnyFuture(c) ==
  /\ pc[c] = "L108"
  /\ \/ /\ fut[c] = "ok"
        /\ \A d \in Calls : fut[d] # "err"
        /\ pc' = [pc EXCEPT ![c] = "returned"]
        /\ outcome' = [outcome EXCEPT ![c] = "proxy"]
     \/ /\ fut[c] # "pending"
        /\ \E d \in Calls : fut[d] = "err"
        /\ Raise(c, "TemplateGenerationError")
  /\ UNCHANGED <<allocVars, registry, argVars, name, iface, scriptable,
                 remoteVars, localVars, sent>>

(* Lines 108-109: fut.wait() blocks until the future is resolved and       *)
(* raises its error; then return remote_module.                            *)
Wait(c) ==
  /\ pc[c] = "L108"
  /\ \/ /\ fut[c] = "ok"
        /\ pc' = [pc EXCEPT ![c] = "returned"]
        /\ outcome' = [outcome EXCEPT ![c] = "proxy"]
     \/ /\ fut[c] = "err"
        /\ Raise(c, "TemplateGenerationError")
  /\ UNCHANGED <<allocVars, registry, argVars, name, iface, scriptable,
                 remoteVars, localVars, sent>>

(* A step of the thread that runs call c. *)
CallerStep(c) ==
  \/ Acquire(c)
  \/ ReadId(c)
  \/ Increment(c)
  \/ ReleaseAndName(c)
  \/ ResolveIface(c)
  \/ IssueTemplate(c)
  \/ LocalTemplate(c)
  \/ Create(c)
  \/ SyncReturn(c)
  \/ Wait(c)

----
(* The target node: the RPC runtime runs the handlers of the requests.     *)

(* Handler of the asynchronous request: _instantiate_template (lines       *)
(* 23-34) on the target with the arguments the request carries; the future *)
(* resolves with its result or its error.                                  *)
RemoteTemplate(c) ==
  /\ fut[c] = "pending"
  /\ \/ /\ registry' = [registry EXCEPT ![to[c]] =
                          @ \cup {GeneratedModuleName(futArgs[c][1])}]
        /\ fut' = [fut EXCEPT ![c] = "ok"]
        /\ rlog' = [rlog EXCEPT ![c] = Append(@, "template")]
     \/ /\ fut' = [fut EXCEPT ![c] = "err"]
        /\ UNCHANGED <<registry, rlog>>
  /\ UNCHANGED <<allocVars, pc, argVars, name, iface, scriptable, futArgs,
                 crt, localVars, outcome, sent>>

(* RemoteCreate that runs only once the template request has succeeded. *)
RemoteCreateAfterTemplate(c) ==
  /\ crt[c] = "pending"
  /\ fut[c] = "ok"
  /\ \/ /\ crt' = [crt EXCEPT ![c] = "ok"]
        /\ rlog' = [rlog EXCEPT ![c] =
                      IF scriptable[c]
                        THEN @ \o <<"factory", "script", "rref">>
                        ELSE @ \o <<"factory">>]
     \/ /\ crt' = [crt EXCEPT ![c] = "err"]
        /\ UNCHANGED rlog
     \/ /\ scriptable[c]
        /\ crt' = [crt EXCEPT ![c] = "err"]
        /\ rlog' = [rlog EXCEPT ![c] = @ \o <<"factory">>]
  /\ UNCHANGED <<allocVars, registry, pc, argVars, name, iface, scriptable,
                 fut, futArgs, localVars, outcome, sent>>

(* Handler of the creation request on the target.  Synchronous request:  *)
(* _script_module_creator_wrapper (lines 37-40) calls module_creator,      *)
(* scripts the module and wraps it in an RRef; an exception at line 38 or  *)
(* 39 is the result of the request.  rpc.remote (line 103): the owner      *)
(* calls module_creator and its result, or its exception, becomes the      *)
(* value of the RRef.                                                      *)
RemoteCreate(c) ==
  /\ crt[c] = "pending"
  /\ \/ /\ crt' = [crt EXCEPT ![c] = "ok"]
        /\ rlog' = [rlog EXCEPT ![c] =
                      IF scriptable[c]
                        THEN @ \o <<"factory", "script", "rref">>
                        ELSE @ \o <<"factory">>]
     \/ /\ crt' = [crt EXCEPT ![c] = "err"]
        /\ UNCHANGED rlog
     \/ /\ scriptable[c]
        /\ crt' = [crt EXCEPT ![c] = "err"]
        /\ rlog' = [rlog EXCEPT ![c] = @ \o <<"factory">>]
  /\ UNCHANGED <<allocVars, registry, pc, argVars, name, iface, scriptable,
                 fut, futArgs, localVars, outcome, sent>>

----
(* The caller's first use of the returned proxy: a forwarding method       *)
(* issues an RPC on the RRef the proxy holds, which yields the remote      *)
(* module's result once the owner holds the module, or the error with      *)
(* which its creation ended.                                               *)
Forward(c) ==
  /\ pc[c] = "returned"
  /\ fwd[c] = "none"
  /\ crt[c] # "pending"
  /\ fwd' = [fwd EXCEPT ![c] =
               IF crt[c] = "ok" THEN "result" ELSE "RemoteCreationError"]
  /\ UNCHANGED <<allocVars, registry, pc, argVars, name, iface, scriptable,
                 remoteVars, rref, cls, proxy, outcome, sent>>

----
Next ==
  \E c \in Calls :
    \/ Enter(c)
    \/ Acquire(c)
    \/ ReadId(c)
    \/ Increment(c)
    \/ ReleaseAndName(c)
    \/ ResolveIface(c)
    \/ IssueTemplate(c)
    \/ LocalTemplate(c)
    \/ Create(c)
    \/ SyncReturn(c)
    \/ Wait(c)
    \/ RemoteTemplate(c)
    \/ RemoteCreate(c)
    \/ Forward(c)

Spec == Init /\ [][Next]_vars

(* Spec with a fair scheduler and a fair RPC runtime: a thread that can    *)
(* take a step (the lock of line 16 being free included) eventually takes  *)
(* one, and the target eventually runs the handler of every request it     *)
(* has received.                                                           *)
LiveSpec ==
  /\ Spec
  /\ \A c \in Calls :
       /\ WF_vars(CallerStep(c))
       /\ WF_vars(RemoteTemplate(c))
       /\ WF_vars(RemoteCreate(c))

----
(* Properties. *)

Errors == {"AssertionError", "InterfaceInferenceError",
           "TemplateGenerationError", "RemoteCreationError"}

Count(seq, x) == Cardinality({i \in DOMAIN seq : seq[i] = x})

(* What the creation handler has done for call c, in order. *)
CreationLog(c) == SelectSeq(rlog[c], LAMBDA e : e # "template")

(* Call c has read the counter at line 17. *)
HasId(c) ==
  \/ pc[c] \in {"L18", "L19"}
  \/ /\ caller[c] # None
     /\ name[c] = GlobalUniqueName(caller[c], localId[c])

(* C1: the names returned by _gen_global_unique_name to the threads of one *)
(* node are pairwise distinct, and no two calls on one node hold the same  *)
(* counter value, under every interleaving of the lock acquisitions.       *)
C1_DistinctOnNode ==
  /\ \A n \in Nodes : \A x \in BagToSet(allocated[n]) :
       CopiesIn(x, allocated[n]) = 1
  /\ \A c, d \in Calls :
       (c # d /\ HasId(c) /\ HasId(d) /\ caller[c] = caller[d])
         => localId[c] # localId[d]

(* Two calls on one node hold a name each while both are still running. *)
C1_Witness ==
  \E c, d \in Calls :
    /\ c # d
    /\ caller[c] = caller[d]
    /\ pc[c] = "L76" /\ pc[d] = "L76"
    /\ BagIn(name[c], allocated[caller[c]])
    /\ BagIn(name[d], allocated[caller[d]])

(* C8: over the whole mesh no name is allocated twice: not twice on one    *)
(* node and not on two nodes.                                              *)
C8_DistinctInMesh ==
  \A n1, n2 \in Nodes : \A x \in BagToSet(allocated[n1]) :
    /\ CopiesIn(x, allocated[n1]) = 1
    /\ n1 # n2 => ~BagIn(x, allocated[n2])

(* Both nodes have allocated their first name. *)
C8_Witness ==
  /\ BagIn("w_0", allocated["w"])
  /\ BagIn("w_1_0", allocated["w_1"])

(* C2: a call that has returned its proxy has seen the future of its       *)
(* template request resolve successfully, the request carried the triple   *)
(* the caller used locally, and the target holds the generated module of   *)
(* that name.                                                              *)
C2_RemoteTemplateBeforeReturn ==
  \A c \in Calls :
    outcome[c] = "proxy" =>
      /\ fut[c] = "ok"
      /\ futArgs[c] = <<name[c], iface[c], scriptable[c]>>
      /\ cls[c]
      /\ GeneratedModuleName(name[c]) \in registry[caller[c]]
      /\ GeneratedModuleName(name[c]) \in registry[to[c]]

(* A call from w to w_1 has returned its proxy. *)
C2_Witness ==
  \E c \in Calls :
    /\ outcome[c] = "proxy"
    /\ caller[c] # to[c]
    /\ Count(rlog[c], "template") = 1

(* C3 as stated: on both paths a call that has returned its proxy has seen *)
(* module_creator finish successfully on the target.                       *)
C3_ObjectBeforeReturn ==
  \A c \in Calls : outcome[c] = "proxy" => crt[c] = "ok"

(* C3 as amended: a call that has returned its proxy holds the RRef; on    *)
(* the scriptable path the handler has run module_creator, scripted and    *)
(* wrapped the module successfully; on the other path the request of       *)
(* rpc.remote has been sent exactly once, whatever has become of it.       *)
C3_HandleBeforeReturn ==
  \A c \in Calls :
    outcome[c] = "proxy" =>
      /\ rref[c]
      /\ proxy[c]
      /\ scriptable[c] =>
           /\ crt[c] = "ok"
           /\ CreationLog(c) = <<"factory", "script", "rref">>
      /\ ~scriptable[c] =>
           /\ Count(sent[c], "deferred") = 1
           /\ crt[c] \in {"pending", "ok", "err"}

(* One call has returned on the scriptable path, another has returned on   *)
(* the other path while module_creator has not run yet.                    *)
C3_Witness ==
  \E c, d \in Calls :
    /\ outcome[c] = "proxy" /\ scriptable[c]
    /\ outcome[d] = "proxy" /\ ~scriptable[d] /\ crt[d] = "pending"

(* C4: a call whose template future resolved with an error never returns a *)
(* proxy; once it has finished it has raised.                              *)
C4_RemoteTemplateErrorRaises ==
  \A c \in Calls :
    fut[c] = "err" =>
      /\ outcome[c] # "proxy"
      /\ pc[c] # "returned"
      /\ pc[c] = "raised" => outcome[c] \in Errors

(* The future failed after the local template, the remote module and the   *)
(* local proxy were all there, and the call raised.                        *)
C4_Witness ==
  \E c \in Calls :
    /\ fut[c] = "err"
    /\ cls[c] /\ rref[c] /\ proxy[c]
    /\ crt[c] = "ok"
    /\ pc[c] = "raised"
    /\ outcome[c] = "TemplateGenerationError"

(* C5: a call made while no RPC agent is set raises the assertion error    *)
(* at once and never issues a request.                                     *)
C5_InactiveRaisesBeforeRpc ==
  \A c \in Calls :
    (pc[c] # "idle" /\ ~agent[c]) =>
      /\ pc[c] = "raised"
      /\ outcome[c] = "AssertionError"
      /\ sent[c] = <<>>
      /\ fut[c] = "none"
      /\ crt[c] = "none"
      /\ rlog[c] = <<>>

(* A call was made without an RPC agent. *)
C5_Witness ==
  \E c \in Calls : ~agent[c] /\ pc[c] = "raised" /\ sent[c] = <<>>

(* C6: a call ends with a complete proxy or with an error and no proxy; a  *)
(* failed step is never survived; no request is sent twice.                *)
C6_ProxyOrError ==
  \A c \in Calls :
    /\ (pc[c] = "returned") = (outcome[c] = "proxy")
    /\ (pc[c] = "raised") = (outcome[c] \in Errors)
    /\ outcome[c] \in Errors \cup {"proxy", "none"}
    /\ outcome[c] = "proxy" =>
         /\ cls[c] /\ rref[c] /\ proxy[c]
         /\ fut[c] = "ok"
         /\ GeneratedModuleName(name[c]) \in registry[to[c]]
    /\ (fut[c] = "err" \/ (scriptable[c] /\ crt[c] = "err")) =>
         outcome[c] # "proxy"
    /\ \A r \in {"template", "sync", "deferred"} : Count(sent[c], r) <= 1
    /\ Count(sent[c], "sync") + Count(sent[c], "deferred") <= 1

(* One call has returned and another has raised after sending requests. *)
C6_Witness ==
  \E c, d \in Calls :
    /\ outcome[c] = "proxy"
    /\ outcome[d] = "RemoteCreationError"
    /\ sent[d] = <<"template", "sync">>

(* C7: is_scriptable alone selects the path.  Scriptable: no rpc.remote    *)
(* request, one synchronous request by the time the RRef is held, and the  *)
(* handler runs module_creator, then scripts, then wraps.  Otherwise: no   *)
(* synchronous request, no scripting, one rpc.remote request.              *)
C7_PathByFlag ==
  \A c \in Calls :
    /\ sent[c] # <<>> => scriptable[c] = IsScriptable(iface[c])
    /\ scriptable[c] =>
         /\ Count(sent[c], "deferred") = 0
         /\ CreationLog(c) \in
              {<<>>, <<"factory">>, <<"factory", "script", "rref">>}
         /\ rref[c] =>
              /\ Count(sent[c], "sync") = 1
              /\ CreationLog(c) = <<"factory", "script", "rref">>
    /\ ~scriptable[c] =>
         /\ Count(sent[c], "sync") = 0
         /\ CreationLog(c) \in {<<>>, <<"factory">>}
         /\ rref[c] => Count(sent[c], "deferred") = 1

(* Both paths taken to the point where the RRef is held and the module     *)
(* exists.                                                                 *)
C7_Witness ==
  \E c, d \in Calls :
    /\ scriptable[c] /\ rref[c]
    /\ ~scriptable[d] /\ rref[d] /\ crt[d] = "ok"

(* C9 as stated: after a call has raised the template error, no generated  *)
(* module of its name is registered on the caller or on the target.        *)
C9_NoRegistrationLeft ==
  \A c \in Calls :
    (pc[c] = "raised" /\ outcome[c] = "TemplateGenerationError") =>
      /\ GeneratedModuleName(name[c]) \notin registry[caller[c]]
      /\ GeneratedModuleName(name[c]) \notin registry[to[c]]

(* C9 as amended: a call whose local instantiation failed has raised       *)
(* having sent the template request and nothing else: no creation request, *)
(* no RRef, no proxy.  The template request stays in flight.               *)
C9_LocalFailureAborts ==
  \A c \in Calls :
    (outcome[c] = "TemplateGenerationError" /\ ~cls[c]) =>
      /\ pc[c] = "raised"
      /\ sent[c] = <<"template">>
      /\ crt[c] = "none"
      /\ ~rref[c] /\ ~proxy[c]
      /\ fut[c] \in {"pending", "ok", "err"}

(* The local instantiation failed, the call raised, and the target has     *)
(* registered the generated module all the same.                           *)
C9_Witness ==
  \E c \in Calls :
    /\ outcome[c] = "TemplateGenerationError" /\ ~cls[c]
    /\ caller[c] # to[c]
    /\ fut[c] = "ok"
    /\ GeneratedModuleName(name[c]) \in registry[to[c]]
    /\ GeneratedModuleName(name[c]) \notin registry[caller[c]]

(* C10: on the scriptable path a failed creation makes the call raise; on  *)
(* the other path the call never raises the creation error, it returns its *)
(* proxy and the error is the result of the first forwarded call.          *)
C10_CreationErrorSurfacing ==
  \A c \in Calls :
    /\ (scriptable[c] /\ crt[c] = "err") =>
         /\ ~rref[c]
         /\ pc[c] = "L97" \/ outcome[c] = "RemoteCreationError"
    /\ ~scriptable[c] => outcome[c] # "RemoteCreationError"
    /\ outcome[c] = "RemoteCreationError" => (scriptable[c] /\ crt[c] = "err")
    /\ fwd[c] = "RemoteCreationError" =>
         (~scriptable[c] /\ crt[c] = "err" /\ outcome[c] = "proxy")
    /\ (outcome[c] = "proxy" /\ crt[c] = "err" /\ fwd[c] # "none") =>
         fwd[c] = "RemoteCreationError"

(* A proxy was returned although module_creator raised on the target, and  *)
(* the first forwarded call got the error; another call raised it.         *)
C10_Witness ==
  \E c, d \in Calls :
    /\ ~scriptable[c] /\ crt[c] = "err" /\ outcome[c] = "proxy"
    /\ fwd[c] = "RemoteCreationError"
    /\ scriptable[d] /\ outcome[d] = "RemoteCreationError"

(* The names node n has handed out or is about to: those returned, and    *)
(* those of the calls between line 17 and line 20.                         *)
NamesTaken(n) ==
  BagToSet(allocated[n]) \cup
    {GlobalUniqueName(n, localId[c]) :
       c \in {d \in Calls : caller[d] = n /\ pc[d] \in {"L18", "L19"}}}

(* The first k names of node n. *)
FirstNames(n, k) ==
  {GlobalUniqueName(n, i) : i \in {j \in 0 .. k : j < k}}

Blocked(c) ==
  /\ pc[c] \notin {"idle", "returned", "raised"}
  /\ ~ENABLED CallerStep(c)

(* C13 as stated: apart from the lock, the thread of a call is blocked     *)
(* only in fut.wait() of line 108, on both paths.                          *)
C13_OnlyWaitBlocks ==
  \A c \in Calls : (Blocked(c) /\ pc[c] # "L16") => pc[c] = "L108"

(* C13 as amended: lines 76-96 never block; the thread blocks on remote    *)
(* work in fut.wait() (line 108) while the future is pending and, on the   *)
(* scriptable path only, in rpc_sync (line 97) while the handler has not   *)
(* finished; the one other blocking point is the lock of line 16.          *)
C13_BlockingPoints ==
  \A c \in Calls :
    /\ pc[c] \in {"L17", "L18", "L19", "L76", "L84", "L91", "L96"} =>
         ENABLED CallerStep(c)
    /\ Blocked(c) => pc[c] \in {"L16", "L97", "L108"}
    /\ pc[c] = "L97" => scriptable[c]
    /\ pc[c] = "L97" => (Blocked(c) <=> crt[c] = "pending")
    /\ pc[c] = "L108" => (Blocked(c) <=> fut[c] = "pending")
    /\ pc[c] = "L16" => (Blocked(c) <=> lock[caller[c]] # NoThread)
    /\ (~scriptable[c] /\ Blocked(c)) => pc[c] \in {"L16", "L108"}

(* One thread is blocked in rpc_sync while its template future is still    *)
(* pending; another, on the other path, is blocked in fut.wait().          *)
C13_Witness ==
  \E c, d \in Calls :
    /\ pc[c] = "L97" /\ Blocked(c) /\ fut[c] = "pending"
    /\ pc[d] = "L108" /\ Blocked(d) /\ ~scriptable[d] /\ crt[d] = "pending"

(* C14: the two remote effects of one call race.  While a request is     *)
(* pending its handler can run whatever the state of the other request,    *)
(* so from a state with both pending either order follows; a call that     *)
(* returned a proxy has issued both requests and its remote template is    *)
(* registered.                                                             *)
C14_RemoteEffectsRace ==
  \A c \in Calls :
    /\ fut[c] = "pending" => ENABLED RemoteTemplate(c)
    /\ crt[c] = "pending" => ENABLED RemoteCreate(c)
    /\ outcome[c] = "proxy" =>
         /\ Count(sent[c], "template") = 1
         /\ Count(sent[c], "sync") + Count(sent[c], "deferred") = 1
         /\ fut[c] = "ok"
         /\ GeneratedModuleName(name[c]) \in registry[to[c]]

(* Both orders, one on each path: a scriptable call whose object was       *)
(* created before its template was registered, and a non-scriptable call   *)
(* whose template was registered first; both returned a proxy.             *)
C14_Witness ==
  \E c, d \in Calls :
    /\ scriptable[c] /\ outcome[c] = "proxy"
    /\ rlog[c] = <<"factory", "script", "rref", "template">>
    /\ ~scriptable[d] /\ outcome[d] = "proxy"
    /\ rlog[d] = <<"template", "factory">>

(* The other two orders. *)
C14_WitnessOther ==
  \E c, d \in Calls :
    /\ scriptable[c] /\ outcome[c] = "proxy"
    /\ rlog[c] = <<"template", "factory", "script", "rref">>
    /\ ~scriptable[d] /\ outcome[d] = "proxy"
    /\ rlog[d] = <<"factory", "template">>

(* C15: the caller's events of one call occur in a fixed order: the       *)
(* template request is issued before the local instantiation, the creation *)
(* request only after the local instantiation succeeded, the proxy only    *)
(* after the handle was returned, and the wait on the future only after    *)
(* the proxy was constructed.                                              *)
C15_CallerOrder ==
  /\ [](\A c \in Calls :
          /\ pc[c] \in {"idle", "L16", "L17", "L18", "L19", "L76", "L84"} =>
               sent[c] = <<>> /\ ~cls[c]
          /\ pc[c] = "L91" => sent[c] = <<"template">> /\ ~cls[c]
          /\ cls[c] => Len(sent[c]) >= 1 /\ sent[c][1] = "template"
          /\ Len(sent[c]) >= 2 =>
               /\ cls[c]
               /\ sent[c] \in {<<"template", "sync">>,
                               <<"template", "deferred">>}
          /\ rref[c] => Len(sent[c]) = 2 /\ crt[c] # "none"
          /\ (rref[c] /\ scriptable[c]) => crt[c] = "ok"
          /\ proxy[c] => rref[c]
          /\ pc[c] = "L108" => proxy[c]
          /\ outcome[c] = "proxy" => proxy[c])
  /\ [][\A c \in Calls :
          /\ (cls'[c] /\ ~cls[c]) => sent[c] = <<"template">>
          /\ Len(sent'[c]) > Len(sent[c]) =>
               IF sent[c] = <<>> THEN ~cls[c] ELSE cls[c] /\ ~rref[c]
          /\ (proxy'[c] /\ ~proxy[c]) => rref'[c] /\ crt'[c] # "none"
          /\ (pc[c] = "L108" /\ pc'[c] # "L108") => proxy[c]]_vars

(* One call on the rpc.remote path waits on its future with the proxy     *)
(* constructed; one on the rpc_sync path has gone through all the events  *)
(* and returned.                                                           *)
C15_Witness ==
  \E c, d \in Calls :
    /\ pc[c] = "L108" /\ proxy[c] /\ sent[c] = <<"template", "deferred">>
    /\ pc[d] = "returned" /\ proxy[d] /\ sent[d] = <<"template", "sync">>

(* C16: a call that fails after remote state was created issues no       *)
(* compensating request: in the step that raises and in every later step   *)
(* the requests it has sent are unchanged, an object it created stays      *)
(* created and the target's registry loses no template; so the object of   *)
(* a call whose template request failed, and the template of a call whose  *)
(* creation failed, remain on the target.                                  *)
C16_NoCleanup ==
  /\ [](\A c \in Calls :
          pc[c] = "raised" =>
            /\ sent[c] \in {<<>>, <<"template">>, <<"template", "sync">>,
                            <<"template", "deferred">>}
            /\ (fut[c] = "ok") =>
                 GeneratedModuleName(name[c]) \in registry[to[c]]
            /\ (outcome[c] = "TemplateGenerationError" /\ "factory" \in
                  {rlog[c][i] : i \in DOMAIN rlog[c]}) => crt[c] # "none")
  /\ [][\A c \in Calls :
          pc'[c] = "raised" =>
            /\ sent'[c] = sent[c]
            /\ crt[c] = "ok" => crt'[c] = "ok"
            /\ registry[to'[c]] \subseteq registry'[to'[c]]
            /\ Len(rlog'[c]) >= Len(rlog[c])
            /\ SubSeq(rlog'[c], 1, Len(rlog[c])) = rlog[c]]_vars

(* One call raised because its template request failed after its object   *)
(* was created; another raised because its creation failed after its       *)
(* template was registered on the target.                                  *)
C16_Witness ==
  \E c, d \in Calls :
    /\ outcome[c] = "TemplateGenerationError"
    /\ fut[c] = "err" /\ crt[c] = "ok"
    /\ "factory" \in {rlog[c][i] : i \in DOMAIN rlog[c]}
    /\ outcome[d] = "RemoteCreationError"
    /\ fut[d] = "ok" /\ crt[d] = "err"
    /\ GeneratedModuleName(name[d]) \in registry[to[d]]

(* C17: a call without a supplied interface whose inference from the     *)
(* factory's declared return type fails raises InterfaceInferenceError at  *)
(* line 79, and no template request and no creation request of that call   *)
(* ever exists.                                                            *)
C17_InferenceFailureBeforeRpc ==
  \A c \in Calls :
    /\ (/\ iface[c] = None
        /\ ReturnType(creator[c]) = None
        /\ pc[c] \notin {"idle", "L16", "L17", "L18", "L19", "L76"}
        /\ agent[c]) =>
         /\ pc[c] = "raised"
         /\ outcome[c] = "InterfaceInferenceError"
    /\ outcome[c] = "InterfaceInferenceError" =>
         /\ iface[c] = None /\ ReturnType(creator[c]) = None
         /\ sent[c] = <<>>
         /\ fut[c] = "none" /\ futArgs[c] = <<>>
         /\ crt[c] = "none"
         /\ rlog[c] = <<>>
         /\ ~cls[c] /\ ~rref[c] /\ ~proxy[c]
         /\ GeneratedModuleName(name[c]) \notin registry[to[c]] \/
              \E d \in Calls \ {c} : name[d] = name[c]

(* A call whose inference failed has raised, after taking a name, while    *)
(* another call is in the middle of its requests.                         *)
C17_Witness ==
  \E c, d \in Calls :
    /\ outcome[c] = "InterfaceInferenceError"
    /\ name[c] # None
    /\ fut[d] = "pending" /\ crt[d] = "pending"

(* C18: under a fair scheduler and a fair RPC runtime every call that has *)
(* entered RemoteModule eventually returns a proxy or raises; a call       *)
(* leaves RemoteModule only by the return of line 109 or by raising, and   *)
(* once it has ended it stays ended.                                       *)
C18_RunsToCompletion ==
  /\ \A c \in Calls :
       pc[c] # "idle" ~> pc[c] \in {"returned", "raised"}
  /\ [][\A c \in Calls :
          /\ pc'[c] = "idle" => pc[c] = "idle"
          /\ pc[c] \in {"returned", "raised"} =>
               pc'[c] = pc[c] /\ outcome'[c] = outcome[c]
          /\ (pc'[c] = "returned" /\ pc[c] # "returned") =>
               pc[c] = "L108" /\ fut[c] = "ok" /\ outcome'[c] = "proxy"
          /\ (pc'[c] = "raised" /\ pc[c] # "raised") =>
               outcome'[c] \in Errors]_vars

(* Every call has ended: one returned a proxy after the synchronous        *)
(* creation call and the wait, another raised after it had issued both     *)
(* requests.                                                               *)
C18_Witness ==
  /\ \A c \in Calls : pc[c] \in {"returned", "raised"}
  /\ \E c, d \in Calls :
       /\ pc[c] = "returned" /\ sent[c] = <<"template", "sync">>
       /\ pc[d] = "raised" /\ Len(sent[d]) = 2

(* Everything the model keeps for call c alone. *)
PerCall(c) ==
  <<pc[c], caller[c], agent[c], to[c], creator[c], given[c], name[c],
    iface[c], scriptable[c], localId[c], fut[c], futArgs[c], crt[c],
    rref[c], cls[c], proxy[c], outcome[c], sent[c], rlog[c], fwd[c]>>

(* No other call has the name of call c. *)
OwnName(c) == \A d \in Calls \ {c} : name[d] # name[c]

(* C19: calls with different names are independent.  The outcome of a     *)
(* call is decided by its own requests: a proxy by its own template        *)
(* future, carrying its own name, and its own handle; each error by its    *)
(* own failed step.  Every template registered on a node was registered    *)
(* by the local instantiation or the template request of the call with     *)
(* that name.  A step changes the record of at most one call, and the      *)
(* counter, the lock and the nodes' registries are all that calls share.   *)
C19_Independent ==
  /\ [](\A c \in Calls :
          OwnName(c) =>
            /\ outcome[c] = "proxy" =>
                 /\ fut[c] = "ok" /\ futArgs[c][1] = name[c]
                 /\ cls[c] /\ rref[c]
                 /\ Count(rlog[c], "template") = 1
                 /\ scriptable[c] => crt[c] = "ok"
            /\ outcome[c] = "AssertionError" => ~agent[c]
            /\ outcome[c] = "InterfaceInferenceError" =>
                 iface[c] = None /\ ReturnType(creator[c]) = None
            /\ outcome[c] = "TemplateGenerationError" =>
                 ~cls[c] \/ fut[c] = "err"
            /\ outcome[c] = "RemoteCreationError" =>
                 scriptable[c] /\ crt[c] = "err"
            /\ Count(rlog[c], "template") <= 1
            /\ Count(rlog[c], "factory") <= 1)
  /\ [](\A n \in Nodes :
          registry[n] =
            {GeneratedModuleName(name[c]) :
               c \in {d \in Calls : cls[d] /\ caller[d] = n}} \cup
            {GeneratedModuleName(futArgs[c][1]) :
               c \in {d \in Calls : to[d] = n /\
                                    Count(rlog[d], "template") = 1}})
  /\ [][Cardinality({c \in Calls : PerCall(c)' # PerCall(c)}) <= 1]_vars

(* Two calls with different names from the same node to the same target:  *)
(* the template request of one failed and it raised; the other returned    *)
(* its proxy.                                                              *)
C19_Witness ==
  \E c, d \in Calls :
    /\ name[c] # name[d]
    /\ caller[c] = caller[d] /\ to[c] = to[d]
    /\ outcome[c] = "TemplateGenerationError" /\ fut[c] = "err"
    /\ outcome[d] = "proxy" /\ fwd[d] = "result"

(* The calls on node n that have executed line 18. *)
Incremented(n) ==
  {c \in Calls : /\ caller[c] = n
                 /\ agent[c]
                 /\ given[c] = None
                 /\ pc[c] \notin {"idle", "L16", "L17", "L18"}}

(* C20: _NEXT_LOCAL_ID never decreases and changes only by +1, in a step  *)
(* of the thread that holds the lock at line 18; it counts exactly the     *)
(* calls that passed the assertion without a supplied name, those that     *)
(* raised later included, and equals the number of names handed out plus   *)
(* the calls that are between line 18 and the end of the with block.       *)
C20_CounterCountsAllocations ==
  /\ [](\A n \in Nodes :
          /\ nextLocalId[n] = Cardinality(Incremented(n))
          /\ nextLocalId[n] =
               BagCardinality(allocated[n]) +
                 Cardinality({c \in Calls : caller[c] = n /\ pc[c] = "L19"}))
  /\ [][\A n \in Nodes :
          \/ nextLocalId'[n] = nextLocalId[n]
          \/ /\ nextLocalId'[n] = nextLocalId[n] + 1
             /\ lock[n] # NoThread
             /\ lock'[n] = lock[n]
             /\ caller[lock[n]] = n
             /\ pc[lock[n]] = "L18"
             /\ pc'[lock[n]] = "L19"]_vars

(* Two calls on one node took a name each and then failed, one at the     *)
(* interface inference and one at the creation; the counter stays at two.  *)
C20_Witness ==
  \E c, d \in Calls :
    /\ caller[c] = caller[d]
    /\ outcome[c] = "InterfaceInferenceError"
    /\ outcome[d] = "RemoteCreationError"
    /\ given[c] = None /\ given[d] = None
    /\ nextLocalId[caller[c]] = 2
    /\ BagCardinality(allocated[caller[c]]) = 2

====
